---- MODULE Spec2Model ----
(***************************************************************************)
(* A model of azb (src/src/main.rs): a command-line tool that lists the    *)
(* blobs under a prefix, opens the most recently modified one (or a named  *)
(* one) after downloading it below <exe dir>/blobs, and cleans that        *)
(* directory.                                                              *)
(*                                                                         *)
(* Strings are sequences of one-character strings, so that split, trim and *)
(* format! are computed character by character.  Paths are sequences of    *)
(* components below the filesystem root, compared as std::path compares    *)
(* them (by components).  Options are sequences of length 0 or 1.          *)
(***************************************************************************)
EXTENDS Integers, Sequences, FiniteSets, TLC

VARIABLES
    command,      \* app.command: [type, prefix, name]
    pc,           \* position of the (single, sequential) task
    mainResult,   \* what main returned: <<>> while running, <<"Ok">> / <<"Err">>
    bar,          \* the progress indicator: [msg, finished]
    out,          \* lines printed to standard output
    fs,           \* the filesystem: path -> [kind, data]
    fs0,          \* the filesystem when the process started
    ret,          \* list_blobs: the accumulating Vec<BlobItem>
    pages,        \* history of the items the listing stream produced
    listResult,   \* Option<Result<Vec<BlobItem>>> returned by list_blobs
    latest_blob,  \* Option<Option<Blob>>: the value get_latest_blob returned
    blob_name,    \* Option<String>: the argument of process_blob
    result,       \* get_blob: the accumulating Vec<u8>
    chunks,       \* history of the items the content streams produced
    responses,    \* number of responses the blob stream has produced
    file_path,    \* Option<Path>: process_blob's file_path
    procResult,   \* Option<Result<()>> returned by process_blob
    opened,       \* paths handed to opener::open
    stack,        \* clean: the active remove_dir_contents calls (their dirs)
    cleanResult,  \* Option<Result<()>> returned by clean
    runs,         \* number of invocations of the program so far
    fsAfterClean, \* Option<fs>: the filesystem after the previous successful clean
    blob_content, \* Option<Vec<u8>>: the bytes get_blob returned
    removed,      \* the paths clean has removed, in order of removal
    failures      \* the kinds of failure that occurred in this invocation

vars == <<failures, command, pc, mainResult, bar, out, fs, fs0, ret, pages, listResult,
          latest_blob, blob_name, result, chunks, responses, file_path,
          procResult, opened, stack, cleanResult, runs, fsAfterClean,
          blob_content, removed>>

listVars == <<ret, pages, listResult, latest_blob>>
procVars == <<blob_name, result, chunks, responses, blob_content, file_path,
              procResult, opened>>
cleanVars == <<stack, cleanResult, removed>>
runVars == <<command, fs0, runs, fsAfterClean>>

(***************************************************************************)
(* Bounds                                                                  *)
(***************************************************************************)
MaxPages == 2       \* items the listing stream produces
MaxPageLen == 2     \* entries in one listing page
MaxChunks == 2      \* items the content streams produce in one download
MaxResponses == 2   \* responses of the blob stream in one download
MaxNameLen == 3     \* characters of an object name given to the path mapping
MaxCleanRuns == 2   \* successive invocations of clean
MaxEntries == 4     \* entries of a listing given to the selection

(***************************************************************************)
(* Options, results and sequences                                          *)
(***************************************************************************)
None == <<>>
Some(x) == <<x>>
Ok(x) == [ok |-> TRUE, val |-> x]
Err(e) == [ok |-> FALSE, val |-> e]

Last(s) == s[Len(s)]
Front(s) == SubSeq(s, 1, Len(s) - 1)

SeqsUpTo(S, n) == UNION {[1..k -> S] : k \in 0..n}

(***************************************************************************)
(* Strings                                                                 *)
(***************************************************************************)
Slash == "/"
Space == " "

RECURSIVE Split(_)
\* str::split("/"): the segments between the delimiters; never empty
Split(s) ==
    IF \A i \in DOMAIN s : s[i] # Slash
    THEN <<s>>
    ELSE LET i == CHOOSE k \in DOMAIN s :
                      s[k] = Slash /\ \A j \in 1..(k - 1) : s[j] # Slash
         IN <<SubSeq(s, 1, i - 1)>> \o Split(SubSeq(s, i + 1, Len(s)))

RECURSIVE TrimStart(_)
TrimStart(s) == IF s # <<>> /\ s[1] = Space THEN TrimStart(Tail(s)) ELSE s

RECURSIVE TrimEnd(_)
TrimEnd(s) == IF s # <<>> /\ Last(s) = Space THEN TrimEnd(Front(s)) ELSE s

\* str::trim
Trim(s) == TrimEnd(TrimStart(s))

Unknown == <<"u", "n", "k", "n", "o", "w", "n">>
Blobs == <<"b", "l", "o", "b", "s">>

(***************************************************************************)
(* std::path on a Unix host.  A path is the sequence of its components     *)
(* below the root; <<>> is the root directory itself.                      *)
(***************************************************************************)
IsAbsolute(s) == s # <<>> /\ s[1] = Slash

\* Path::components: empty segments and "." segments are not components
Components(s) == SelectSeq(Split(s), LAMBDA c : c # <<>> /\ c # <<".">>)

\* Path::join: an absolute argument replaces the base
Join(base, s) == IF IsAbsolute(s) THEN Components(s) ELSE base \o Components(s)

\* Path::parent: None for the root
Parent(p) == IF p = <<>> THEN None ELSE Some(Front(p))

\* current_exe().parent(): the directory of the executable
ExeDir == << <<"d">> >>

BlobsDir == Join(ExeDir, Blobs)

(***************************************************************************)
(* The path mapping of process_blob                                        *)
(***************************************************************************)
\* blob_name.split("/").last().map(|x| x.trim()).unwrap_or("unknown")
FileName(name) ==
    LET segs == Split(name)
    IN IF segs = <<>> THEN Unknown ELSE Trim(Last(segs))

\* dir.join("blobs").join(blob_name).parent().ok_or(..)?.join(file_name)
FilePath(name) ==
    LET parent == Parent(Join(BlobsDir, name))
    IN IF parent = None THEN None ELSE Some(Join(parent[1], FileName(name)))

\* file_path.parent().ok_or(..)?
FileDir(path) == Parent(path)

\* a slip: the name alone, without the prefix
BlobNameOfNameOnly(prefix, name) == name

\* format!("{}/{}", args.storage.prefix, name)
BlobNameOf(prefix, name) == prefix \o <<Slash>> \o name

(***************************************************************************)
(* The filesystem                                                          *)
(***************************************************************************)
Dir == [kind |-> "dir", data |-> <<>>]
DirLink == [kind |-> "dirlink", data |-> <<>>]   \* a symlink to a directory
File(bytes) == [kind |-> "file", data |-> bytes]

Exists(f, p) == p \in DOMAIN f
\* Path::is_dir follows symlinks
IsDir(f, p) == Exists(f, p) /\ f[p].kind \in {"dir", "dirlink"}
Children(f, p) == {q \in DOMAIN f : Len(q) = Len(p) + 1 /\ SubSeq(q, 1, Len(p)) = p}
Ancestors(p) == {SubSeq(p, 1, k) : k \in 0..Len(p)}

Put(f, p, node) == [q \in DOMAIN f \cup {p} |-> IF q = p THEN node ELSE f[q]]
Remove(f, p) == [q \in DOMAIN f \ {p} |-> f[q]]

\* std::fs::create_dir_all can succeed when no ancestor is a non-directory
CanCreateDirAll(f, p) == \A q \in Ancestors(p) : Exists(f, q) => f[q].kind = "dir"
\* the directories up to depth k of p, created where missing
CreateDirs(f, p, k) ==
    [q \in DOMAIN f \cup {SubSeq(p, 1, j) : j \in 0..k} |->
        IF q \in DOMAIN f THEN f[q] ELSE Dir]
CreateDirAll(f, p) == CreateDirs(f, p, Len(p))

\* a slip: an existing file is opened without truncating it
CreateFileNoTruncate(f, p) == IF p \in DOMAIN f THEN f ELSE [q \in DOMAIN f \cup {p} |-> IF q = p THEN [kind |-> "file", data |-> <<>>] ELSE f[q]]

\* File::create: creates the file or truncates an existing one
CanCreateFile(f, p) ==
    /\ p # <<>>
    /\ IsDir(f, Front(p))
    /\ Exists(f, p) => f[p].kind = "file"
CreateFile(f, p) == Put(f, p, File(<<>>))

\* Write::write_all on the freshly created file
WriteAll(f, p, bytes) == Put(f, p, File(f[p].data \o bytes))

(***************************************************************************)
(* Listing entries and the selection of the latest blob                    *)
(***************************************************************************)
BlobEntry(n, t) == [kind |-> "Blob", name |-> n, last_modified |-> t]
BlobPrefixEntry(n) == [kind |-> "BlobPrefix", name |-> n, last_modified |-> 0]

\* make_blob: a Blob for a BlobItem::Blob, None for a BlobItem::BlobPrefix
make_blob(item) ==
    IF item.kind = "Blob"
    THEN Some([name |-> item.name, last_updated |-> item.last_modified])
    ELSE None

RECURSIVE FilterMapMakeBlob(_)
\* items.into_iter().filter_map(make_blob).collect()
FilterMapMakeBlob(items) ==
    IF items = <<>> THEN <<>>
    ELSE make_blob(Head(items)) \o FilterMapMakeBlob(Tail(items))

\* a slip: the comparator with its arguments the other way round
SortsBeforeAscending(a, b) == a.last_updated < b.last_updated

\* the comparator of sort_by: b.last_updated.cmp(&a.last_updated) == Less
SortsBefore(a, b) == b.last_updated < a.last_updated

\* stable insertion of x: before the first element it strictly sorts before
InsertSorted(sorted, x) ==
    LET idx == {i \in DOMAIN sorted : SortsBefore(x, sorted[i])}
        k == IF idx = {} THEN Len(sorted) + 1
             ELSE CHOOSE i \in idx : \A j \in idx : i <= j
    IN SubSeq(sorted, 1, k - 1) \o <<x>> \o SubSeq(sorted, k, Len(sorted))

RECURSIVE SortBy(_)
\* slice::sort_by is a stable sort
SortBy(s) == IF s = <<>> THEN <<>> ELSE InsertSorted(SortBy(Front(s)), Last(s))

\* blobs.first().cloned()
First(s) == IF s = <<>> THEN None ELSE Some(s[1])

\* the closure of get_latest_blob
SelectLatest(items) == First(SortBy(FilterMapMakeBlob(items)))

(***************************************************************************)
(* std::str::from_utf8                                                     *)
(***************************************************************************)
IsCont(b) == b \in 128..191

\* length of the well-formed UTF-8 sequence at the head of b, 0 if ill-formed
Utf8Width(b) ==
    LET n == Len(b)
        b1 == b[1]
    IN  IF b1 < 128 THEN 1
        ELSE IF b1 \in 194..223
            THEN IF n >= 2 /\ IsCont(b[2]) THEN 2 ELSE 0
        ELSE IF b1 \in 224..239
            THEN IF /\ n >= 3
                    /\ IsCont(b[2]) /\ IsCont(b[3])
                    /\ (b1 = 224 => b[2] >= 160)
                    /\ (b1 = 237 => b[2] <= 159)
                 THEN 3 ELSE 0
        ELSE IF b1 \in 240..244
            THEN IF /\ n >= 4
                    /\ IsCont(b[2]) /\ IsCont(b[3]) /\ IsCont(b[4])
                    /\ (b1 = 240 => b[2] >= 144)
                    /\ (b1 = 244 => b[2] <= 143)
                 THEN 4 ELSE 0
        ELSE 0

RECURSIVE ValidUtf8(_)
ValidUtf8(b) ==
    IF b = <<>> THEN TRUE
    ELSE LET w == Utf8Width(b)
         IN w > 0 /\ ValidUtf8(SubSeq(b, w + 1, Len(b)))

(***************************************************************************)
(* Inputs                                                                  *)
(***************************************************************************)
Chars == {"a", "b", Slash, Space, "."}
\* every object name of at most MaxNameLen characters
Names == SeqsUpTo(Chars, MaxNameLen)

\* the <prefix> and --name arguments of the command line
Prefixes == {<<>>, <<"a">>}
OpenNames == {<<"a">>, <<"b">>, <<"a", Space>>}

CleanCommand == [type |-> "Clean", prefix |-> <<>>, name |-> None]
Commands ==
    {[type |-> "List", prefix |-> p, name |-> None] : p \in Prefixes}
    \cup {[type |-> "Open", prefix |-> p, name |-> n] :
            p \in Prefixes, n \in {None} \cup {Some(m) : m \in OpenNames}}

\* what the listing service can return
Entries ==
    { BlobEntry(<<"a">>, 1),
      BlobEntry(<<"a", Slash, "b">>, 2),
      BlobPrefixEntry(<<"a", Slash>>) }
Pages == SeqsUpTo(Entries, MaxPageLen)

\* the entries of the listings the selection is applied to
SelectEntries ==
    { BlobEntry(n, t) : n \in {<<"a">>, <<"a", Slash, "b">>}, t \in {1, 2} }
    \cup {BlobPrefixEntry(<<"a", Slash>>)}
Listings == SeqsUpTo(SelectEntries, MaxEntries)

\* what a content stream can deliver: 'A', and the two bytes of U+00E9
Chunks == {<<65>>, <<195>>, <<169>>, <<65, 195>>}

Root == <<>>
PathA == BlobsDir \o << <<"a">> >>
PathAB == PathA \o << <<"b">> >>
OldBytes == <<66>>

FsBare == (Root :> Dir) @@ (ExeDir :> Dir)
FsFile == FsBare @@ (BlobsDir :> Dir) @@ (PathA :> File(OldBytes))
FsNested == FsBare @@ (BlobsDir :> Dir) @@ (PathA :> Dir) @@ (PathAB :> File(OldBytes))
InitialFs == {FsBare, FsFile, FsNested}

\* the cache trees clean is run on
X == <<"x">>
Y == <<"y">>
CachePaths ==
    { BlobsDir \o <<X>>, BlobsDir \o <<Y>>, BlobsDir \o <<X, X>>,
      BlobsDir \o <<X, Y>>, BlobsDir \o <<X, X, X>> }
CacheTrees ==
    { t \in UNION { [S -> {Dir, DirLink, File(<<>>)}] : S \in SUBSET CachePaths } :
        \A q \in DOMAIN t :
            Len(q) > Len(BlobsDir) + 1 =>
                Front(q) \in DOMAIN t /\ t[Front(q)] = Dir }
CleanFs ==
    {FsBare, FsBare @@ (BlobsDir :> File(<<>>))}
    \cup {FsBare @@ (BlobsDir :> Dir) @@ t : t \in CacheTrees}

(***************************************************************************)
(* Initial states                                                          *)
(***************************************************************************)
\* the locals of one invocation, before main has run
Locals ==
    /\ mainResult = None
    /\ bar = [msg |-> "", finished |-> FALSE]
    /\ out = <<>>
    /\ latest_blob = None
    /\ result = <<>>
    /\ chunks = <<>>
    /\ responses = 0
    /\ blob_content = None
    /\ file_path = None
    /\ procResult = None
    /\ opened = <<>>
    /\ stack = <<>>
    /\ cleanResult = None
    /\ removed = <<>>
    /\ failures = {}

Fresh ==
    /\ pc = "main"
    /\ blob_name = None
    /\ ret = <<>>
    /\ pages = <<>>
    /\ listResult = None
    /\ Locals

\* the list command does not touch the filesystem
Init ==
    /\ command \in Commands
    /\ fs \in IF command.type = "List" THEN {FsBare} ELSE InitialFs
    /\ fs0 = fs
    /\ runs = 1
    /\ fsAfterClean = None
    /\ Fresh

(***************************************************************************)
(* main                                                                    *)
(***************************************************************************)
SetMessage(m) == [bar EXCEPT !.msg = m]
Finish == [bar EXCEPT !.finished = TRUE]

\* azure_identity::create_credential()? fails: main returns the error
MainCredentialErr ==
    /\ pc = "main"
    /\ pc' = "exit"
    /\ mainResult' = Some("Err")
    /\ UNCHANGED <<failures, bar, out, fs>>
    /\ UNCHANGED <<listVars, procVars, cleanVars, runVars>>

\* Command::Clean: up to the call of clean()
MainClean ==
    /\ pc = "main"
    /\ command.type = "Clean"
    /\ bar' = SetMessage("Cleaning the 'blobs' directory.")
    /\ pc' = "clean"
    /\ UNCHANGED <<failures, mainResult, out, fs>>
    /\ UNCHANGED <<listVars, procVars, cleanVars, runVars>>

\* Command::Clean: let _ = clean(); bar.finish(); Ok(())
MainCleanDone ==
    /\ pc = "clean_ret"
    /\ bar' = [msg |-> "Done", finished |-> TRUE]
    /\ mainResult' = Some("Ok")
    /\ pc' = "exit"
    /\ UNCHANGED <<failures, out, fs>>
    /\ UNCHANGED <<listVars, procVars, cleanVars, runVars>>

\* Command::List: up to the call of list_blobs
MainList ==
    /\ pc = "main"
    /\ command.type = "List"
    /\ bar' = SetMessage("Finding blobs.")
    /\ pc' = "list_next"
    /\ UNCHANGED <<failures, mainResult, out, fs>>
    /\ UNCHANGED <<listVars, procVars, cleanVars, runVars>>

\* the line println!("{} - {}", blob.name, blob.last_updated) prints
BlobLine(blob) == <<"blob", blob.name, blob.last_updated>>

\* Command::List: list_blobs(..).await? returned; print the blobs
MainListPrint ==
    /\ pc = "list_ret"
    /\ command.type = "List"
    /\ IF listResult[1].ok
       THEN LET blobs == FilterMapMakeBlob(listResult[1].val)
            IN /\ out' = out \o [i \in DOMAIN blobs |-> BlobLine(blobs[i])]
               /\ bar' = Finish
               /\ mainResult' = Some("Ok")
       ELSE /\ mainResult' = Some("Err")
            /\ UNCHANGED <<out, bar>>
    /\ pc' = "exit"
    /\ UNCHANGED <<failures, fs>>
    /\ UNCHANGED <<listVars, procVars, cleanVars, runVars>>

\* Command::Open with --name: up to the call of process_blob
MainOpenNamed ==
    /\ pc = "main"
    /\ command.type = "Open"
    /\ command.name # None
    /\ blob_name' = Some(BlobNameOf(command.prefix, command.name[1]))
    /\ bar' = SetMessage("Downloading")
    /\ pc' = "gb_outer"
    /\ UNCHANGED <<failures, mainResult, out, fs>>
    /\ UNCHANGED <<result, chunks, responses, blob_content, file_path, procResult, opened>>
    /\ UNCHANGED <<listVars, cleanVars, runVars>>

\* Command::Open without --name: up to the call of get_latest_blob
MainOpenLatest ==
    /\ pc = "main"
    /\ command.type = "Open"
    /\ command.name = None
    /\ bar' = SetMessage("Finding the latest blob.")
    /\ pc' = "list_next"
    /\ UNCHANGED <<failures, mainResult, out, fs>>
    /\ UNCHANGED <<listVars, procVars, cleanVars, runVars>>

\* if let Some(blob) = latest_blob: up to the call of process_blob; the
\* listing is dropped
MainOpenFound ==
    /\ pc = "latest_ret"
    /\ latest_blob[1] # None
    /\ blob_name' = Some(latest_blob[1][1].name)
    /\ bar' = SetMessage("Downloading")
    /\ pc' = "gb_outer"
    /\ ret' = <<>>
    /\ pages' = <<>>
    /\ listResult' = None
    /\ UNCHANGED <<failures, mainResult, out, fs, latest_blob>>
    /\ UNCHANGED <<result, chunks, responses, blob_content, file_path, procResult, opened>>
    /\ UNCHANGED <<cleanVars, runVars>>

\* latest_blob is None: bar.finish(); Ok(())
MainOpenNotFound ==
    /\ pc = "latest_ret"
    /\ latest_blob[1] = None
    /\ bar' = Finish
    /\ mainResult' = Some("Ok")
    /\ pc' = "exit"
    /\ UNCHANGED <<failures, out, fs>>
    /\ UNCHANGED <<listVars, procVars, cleanVars, runVars>>

\* let _ = process_blob(..).await; bar.finish(); Ok(())
MainOpenDone ==
    /\ pc = "pb_ret"
    /\ bar' = Finish
    /\ mainResult' = Some("Ok")
    /\ pc' = "exit"
    /\ UNCHANGED <<failures, out, fs>>
    /\ UNCHANGED <<listVars, procVars, cleanVars, runVars>>

(***************************************************************************)
(* list_blobs and get_latest_blob                                          *)
(***************************************************************************)
\* a slip: the page replaces what was accumulated
ExtendFromSliceReplaces(vec, items) == items

\* ret.extend_from_slice(&list_response.blobs.items)
ExtendFromSlice(vec, items) == vec \o items

\* list_stream.next() yields Ok(page): value.map(..) extends ret
ListPageOk ==
    /\ pc = "list_next"
    /\ Len(pages) < MaxPages
    /\ \E page \in Pages :
        /\ ret' = ExtendFromSlice(ret, page)
        /\ pages' = Append(pages, Ok(page))
    /\ UNCHANGED <<failures, pc, mainResult, bar, out, fs, listResult, latest_blob>>
    /\ UNCHANGED <<procVars, cleanVars, runVars>>

\* list_stream.next() yields Err: value.map(..) leaves the error in _blobs
\* and the loop goes on
ListPageErr ==
    /\ pc = "list_next"
    /\ Len(pages) < MaxPages
    /\ pages' = Append(pages, Err("TransportError"))
    /\ failures' = failures \cup {"TransportError"}
    /\ UNCHANGED <<pc, mainResult, bar, out, fs, ret, listResult, latest_blob>>
    /\ UNCHANGED <<procVars, cleanVars, runVars>>

\* list_stream.next() yields None after at least one request: Ok(ret)
ListEnd ==
    /\ pc = "list_next"
    /\ pages # <<>>
    /\ listResult' = Some(Ok(ret))
    /\ pc' = "list_ret"
    /\ UNCHANGED <<failures, mainResult, bar, out, fs, ret, pages, latest_blob>>
    /\ UNCHANGED <<procVars, cleanVars, runVars>>

\* get_latest_blob: list_blobs(..).await.map(select).ok().flatten()
GetLatestBlob ==
    /\ pc = "list_ret"
    /\ command.type = "Open"
    /\ latest_blob' =
          Some(IF listResult[1].ok THEN SelectLatest(listResult[1].val) ELSE None)
    /\ pc' = "latest_ret"
    /\ UNCHANGED <<failures, mainResult, bar, out, fs, ret, pages, listResult>>
    /\ UNCHANGED <<procVars, cleanVars, runVars>>

(***************************************************************************)
(* get_blob                                                                *)
(***************************************************************************)
\* process_blob returns Err(e); nothing of its locals outlives it
ProcessBlobFails(kind) ==
    /\ procResult' = Some(Err(kind))
    /\ failures' = failures \cup {kind}
    /\ pc' = "pb_ret"

\* stream.next() yields Ok(response): its body is read next
GetBlobResponse ==
    /\ pc = "gb_outer"
    /\ responses < MaxResponses
    /\ responses' = responses + 1
    /\ pc' = "gb_inner"
    /\ UNCHANGED <<failures, mainResult, bar, out, fs>>
    /\ UNCHANGED <<blob_name, result, chunks, blob_content, file_path, procResult, opened>>
    /\ UNCHANGED <<listVars, cleanVars, runVars>>

\* stream.next() yields Err: value? returns it, the buffer is dropped
GetBlobResponseErr ==
    /\ pc = "gb_outer"
    /\ responses < MaxResponses
    /\ responses' = responses + 1
    /\ chunks' = Append(chunks, Err("TransportError"))
    /\ result' = <<>>
    /\ ProcessBlobFails("TransportError")
    /\ UNCHANGED <<mainResult, bar, out, fs>>
    /\ UNCHANGED <<blob_name, blob_content, file_path, opened>>
    /\ UNCHANGED <<listVars, cleanVars, runVars>>

\* body.next() yields Ok(chunk): result.extend(&value)
GetBlobChunk ==
    /\ pc = "gb_inner"
    /\ Len(chunks) < MaxChunks
    /\ \E c \in Chunks :
        /\ result' = result \o c
        /\ chunks' = Append(chunks, Ok(c))
    /\ UNCHANGED <<failures, pc, mainResult, bar, out, fs>>
    /\ UNCHANGED <<blob_name, responses, blob_content, file_path, procResult, opened>>
    /\ UNCHANGED <<listVars, cleanVars, runVars>>

\* a slip: the error of a chunk is dropped and the loop goes on
GetBlobChunkErrIgnored ==
    /\ pc = "gb_inner"
    /\ Len(chunks) < MaxChunks
    /\ chunks' = Append(chunks, Err("TransportError"))
    /\ failures' = failures \cup {"TransportError"}
    /\ UNCHANGED <<pc, mainResult, bar, out, fs>>
    /\ UNCHANGED <<blob_name, result, responses, blob_content, file_path, procResult, opened>>
    /\ UNCHANGED <<listVars, cleanVars, runVars>>

\* body.next() yields Err: value? returns it, the buffer is dropped
GetBlobChunkErr ==
    /\ pc = "gb_inner"
    /\ Len(chunks) < MaxChunks
    /\ chunks' = Append(chunks, Err("TransportError"))
    /\ result' = <<>>
    /\ ProcessBlobFails("TransportError")
    /\ UNCHANGED <<mainResult, bar, out, fs>>
    /\ UNCHANGED <<blob_name, responses, blob_content, file_path, opened>>
    /\ UNCHANGED <<listVars, cleanVars, runVars>>

\* body.next() yields None: back to the outer loop
GetBlobBodyEnd ==
    /\ pc = "gb_inner"
    /\ pc' = "gb_outer"
    /\ UNCHANGED <<failures, mainResult, bar, out, fs>>
    /\ UNCHANGED <<procVars, listVars, cleanVars, runVars>>

\* stream.next() yields None after at least one response: Ok(result)
GetBlobEnd ==
    /\ pc = "gb_outer"
    /\ responses > 0
    /\ blob_content' = Some(result)
    /\ result' = <<>>
    /\ pc' = "pb_decode"
    /\ UNCHANGED <<failures, mainResult, bar, out, fs>>
    /\ UNCHANGED <<blob_name, chunks, responses, file_path, procResult, opened>>
    /\ UNCHANGED <<listVars, cleanVars, runVars>>

(***************************************************************************)
(* process_blob                                                            *)
(***************************************************************************)
\* std::str::from_utf8(&blob_content) fails
ProcessBlobInvalidUtf8 ==
    /\ pc = "pb_decode"
    /\ ~ValidUtf8(blob_content[1])
    /\ ProcessBlobFails("DecodeError")
    /\ UNCHANGED <<mainResult, bar, out, fs>>
    /\ UNCHANGED <<blob_name, result, chunks, responses, blob_content, file_path, opened>>
    /\ UNCHANGED <<listVars, cleanVars, runVars>>

\* the content is text; file_path and file_dir are computed
ProcessBlobPath ==
    /\ pc = "pb_decode"
    /\ ValidUtf8(blob_content[1])
    /\ LET path == FilePath(blob_name[1])
       IN IF path = None \/ FileDir(path[1]) = None
          THEN /\ ProcessBlobFails("FilesystemError")
               /\ UNCHANGED file_path
          ELSE /\ file_path' = path
               /\ pc' = "pb_mkdir"
               /\ UNCHANGED <<failures, procResult>>
    /\ UNCHANGED <<mainResult, bar, out, fs>>
    /\ UNCHANGED <<blob_name, result, chunks, responses, blob_content, opened>>
    /\ UNCHANGED <<listVars, cleanVars, runVars>>

\* current_exe()? fails
ProcessBlobCurrentExeErr ==
    /\ pc = "pb_decode"
    /\ ValidUtf8(blob_content[1])
    /\ ProcessBlobFails("FilesystemError")
    /\ UNCHANGED <<mainResult, bar, out, fs>>
    /\ UNCHANGED <<blob_name, result, chunks, responses, blob_content, file_path, opened>>
    /\ UNCHANGED <<listVars, cleanVars, runVars>>

\* std::fs::create_dir_all(file_dir)? succeeds
ProcessBlobCreateDirAll ==
    /\ pc = "pb_mkdir"
    /\ LET file_dir == FileDir(file_path[1])[1]
       IN /\ CanCreateDirAll(fs, file_dir)
          /\ fs' = CreateDirAll(fs, file_dir)
    /\ pc' = "pb_create"
    /\ UNCHANGED <<failures, mainResult, bar, out>>
    /\ UNCHANGED <<procVars, listVars, cleanVars, runVars>>

\* std::fs::create_dir_all(file_dir)? fails after creating the directories
\* down to some depth
ProcessBlobCreateDirAllErr ==
    /\ pc = "pb_mkdir"
    /\ LET file_dir == FileDir(file_path[1])[1]
       IN \E k \in 0..Len(file_dir) :
            /\ CanCreateDirAll(fs, SubSeq(file_dir, 1, k))
            /\ fs' = CreateDirs(fs, file_dir, k)
    /\ ProcessBlobFails("FilesystemError")
    /\ UNCHANGED <<mainResult, bar, out>>
    /\ UNCHANGED <<blob_name, result, chunks, responses, blob_content, file_path, opened>>
    /\ UNCHANGED <<listVars, cleanVars, runVars>>

\* File::create(file_path)? succeeds
ProcessBlobCreateFile ==
    /\ pc = "pb_create"
    /\ CanCreateFile(fs, file_path[1])
    /\ fs' = CreateFile(fs, file_path[1])
    /\ pc' = "pb_write"
    /\ UNCHANGED <<failures, mainResult, bar, out>>
    /\ UNCHANGED <<procVars, listVars, cleanVars, runVars>>

\* File::create(file_path)? fails
ProcessBlobCreateFileErr ==
    /\ pc = "pb_create"
    /\ ProcessBlobFails("FilesystemError")
    /\ UNCHANGED <<mainResult, bar, out, fs>>
    /\ UNCHANGED <<blob_name, result, chunks, responses, blob_content, file_path, opened>>
    /\ UNCHANGED <<listVars, cleanVars, runVars>>

\* file.write_all(blob_content_str.as_bytes())? succeeds
ProcessBlobWriteAll ==
    /\ pc = "pb_write"
    /\ fs' = WriteAll(fs, file_path[1], blob_content[1])
    /\ pc' = "pb_open"
    /\ UNCHANGED <<failures, mainResult, bar, out>>
    /\ UNCHANGED <<procVars, listVars, cleanVars, runVars>>

\* file.write_all(..)? fails after writing a proper prefix of the bytes
ProcessBlobWriteAllErr ==
    /\ pc = "pb_write"
    /\ \E k \in 0..(Len(blob_content[1]) - 1) :
          fs' = WriteAll(fs, file_path[1], SubSeq(blob_content[1], 1, k))
    /\ ProcessBlobFails("FilesystemError")
    /\ UNCHANGED <<mainResult, bar, out>>
    /\ UNCHANGED <<blob_name, result, chunks, responses, blob_content, file_path, opened>>
    /\ UNCHANGED <<listVars, cleanVars, runVars>>

\* opener::open(..) succeeds; Ok(())
ProcessBlobOpen ==
    /\ pc = "pb_open"
    /\ opened' = Append(opened, file_path[1])
    /\ procResult' = Some(Ok("unit"))
    /\ pc' = "pb_ret"
    /\ UNCHANGED <<failures, mainResult, bar, out, fs>>
    /\ UNCHANGED <<blob_name, result, chunks, responses, blob_content, file_path>>
    /\ UNCHANGED <<listVars, cleanVars, runVars>>

\* opener::open(..) fails: the error is printed; Ok(())
ProcessBlobOpenErr ==
    /\ pc = "pb_open"
    /\ opened' = Append(opened, file_path[1])
    /\ out' = Append(out, <<"Error opening file">>)
    /\ failures' = failures \cup {"OpenerError"}
    /\ procResult' = Some(Ok("unit"))
    /\ pc' = "pb_ret"
    /\ UNCHANGED <<mainResult, bar, fs>>
    /\ UNCHANGED <<blob_name, result, chunks, responses, blob_content, file_path>>
    /\ UNCHANGED <<listVars, cleanVars, runVars>>

(***************************************************************************)
(* clean                                                                   *)
(***************************************************************************)
\* a call of remove_dir_contents(dir): the entries read_dir(dir) still yields
Frame(f, d) == [dir |-> d, todo |-> Children(f, d)]

Top == stack[Len(stack)]
SetTodo(todo) == [stack EXCEPT ![Len(stack)].todo = todo]

CleanReturns(r) ==
    /\ cleanResult' = Some(r)
    /\ stack' = <<>>
    /\ pc' = "clean_ret"

\* current_exe()? fails
CleanCurrentExeErr ==
    /\ pc = "clean"
    /\ CleanReturns(Err("FilesystemError"))
    /\ failures' = failures \cup {"FilesystemError"}
    /\ UNCHANGED <<mainResult, bar, out, fs, removed>>
    /\ UNCHANGED <<listVars, procVars, runVars>>

\* blobs_dir.exists() && blobs_dir.is_dir(): remove_dir_contents(&blobs_dir)
CleanStart ==
    /\ pc = "clean"
    /\ IsDir(fs, BlobsDir)
    /\ stack' = <<Frame(fs, BlobsDir)>>
    /\ pc' = "clean_loop"
    /\ UNCHANGED <<failures, mainResult, bar, out, fs, cleanResult, removed>>
    /\ UNCHANGED <<listVars, procVars, runVars>>

\* the else branch: a message, then Ok(())
CleanNoDir ==
    /\ pc = "clean"
    /\ ~IsDir(fs, BlobsDir)
    /\ out' = Append(out, <<"'blobs' directory does not exist.">>)
    /\ CleanReturns(Ok("unit"))
    /\ UNCHANGED <<failures, mainResult, bar, fs, removed>>
    /\ UNCHANGED <<listVars, procVars, runVars>>

\* an entry that is not a directory: fs::remove_file(&path)?
CleanRemoveFile ==
    /\ pc = "clean_loop"
    /\ \E path \in Top.todo :
        /\ ~IsDir(fs, path)
        /\ fs' = Remove(fs, path)
        /\ removed' = Append(removed, path)
        /\ stack' = SetTodo(Top.todo \ {path})
    /\ UNCHANGED <<failures, pc, mainResult, bar, out, cleanResult>>
    /\ UNCHANGED <<listVars, procVars, runVars>>

\* an entry that is a directory: remove_dir_contents(&path) is entered
CleanEnterDir ==
    /\ pc = "clean_loop"
    /\ \E path \in Top.todo :
        /\ IsDir(fs, path)
        /\ fs[path].kind = "dir"
        /\ stack' = Append(SetTodo(Top.todo \ {path}), Frame(fs, path))
    /\ UNCHANGED <<failures, pc, mainResult, bar, out, fs, cleanResult, removed>>
    /\ UNCHANGED <<listVars, procVars, runVars>>

\* an entry that is a symlink to a directory: is_dir() holds, the target
\* (outside the cache) is emptied, and fs::remove_dir(&path)? fails on the link
CleanDirLink ==
    /\ pc = "clean_loop"
    /\ \E path \in Top.todo : fs[path].kind = "dirlink"
    /\ CleanReturns(Err("FilesystemError"))
    /\ failures' = failures \cup {"FilesystemError"}
    /\ UNCHANGED <<mainResult, bar, out, fs, removed>>
    /\ UNCHANGED <<listVars, procVars, runVars>>

\* a nested remove_dir_contents returns Ok: fs::remove_dir(&path)?, which
\* succeeds only on an empty directory
CleanLeaveDir ==
    /\ pc = "clean_loop"
    /\ Len(stack) > 1
    /\ Top.todo = {}
    /\ IF Children(fs, Top.dir) = {}
       THEN /\ fs' = Remove(fs, Top.dir)
            /\ removed' = Append(removed, Top.dir)
            /\ stack' = Front(stack)
            /\ UNCHANGED <<failures, pc, cleanResult>>
       ELSE /\ CleanReturns(Err("FilesystemError"))
            /\ failures' = failures \cup {"FilesystemError"}
            /\ UNCHANGED <<fs, removed>>
    /\ UNCHANGED <<mainResult, bar, out>>
    /\ UNCHANGED <<listVars, procVars, runVars>>

\* a slip: the cache root is removed with its contents
CleanFinishRemovesRoot ==
    /\ pc = "clean_loop"
    /\ Len(stack) = 1
    /\ Top.todo = {}
    /\ fs' = Remove(fs, Top.dir)
    /\ removed' = Append(removed, Top.dir)
    /\ CleanReturns(Ok("unit"))
    /\ UNCHANGED <<failures, mainResult, bar, out>>
    /\ UNCHANGED <<listVars, procVars, runVars>>

\* the outermost remove_dir_contents returns Ok: clean returns Ok(())
CleanFinish ==
    /\ pc = "clean_loop"
    /\ Len(stack) = 1
    /\ Top.todo = {}
    /\ CleanReturns(Ok("unit"))
    /\ UNCHANGED <<failures, mainResult, bar, out, fs, removed>>
    /\ UNCHANGED <<listVars, procVars, runVars>>

\* read_dir, an entry, remove_file or remove_dir fails: ? returns the error
CleanIoErr ==
    /\ pc = "clean_loop"
    /\ CleanReturns(Err("FilesystemError"))
    /\ failures' = failures \cup {"FilesystemError"}
    /\ UNCHANGED <<mainResult, bar, out, fs, removed>>
    /\ UNCHANGED <<listVars, procVars, runVars>>

\* the program is invoked again on the filesystem the last run left
Reinvoke ==
    /\ pc = "exit"
    /\ runs < MaxCleanRuns
    /\ runs' = runs + 1
    /\ fs0' = fs
    /\ fsAfterClean' =
          IF cleanResult # None /\ cleanResult[1].ok THEN Some(fs) ELSE None
    /\ pc' = "main"
    /\ mainResult' = None
    /\ bar' = [msg |-> "", finished |-> FALSE]
    /\ out' = <<>>
    /\ stack' = <<>>
    /\ cleanResult' = None
    /\ failures' = {}
    /\ UNCHANGED <<command, fs, removed>>
    /\ UNCHANGED <<listVars, procVars>>

(***************************************************************************)
(* The path mapping applied to an arbitrary object name                    *)
(***************************************************************************)
MapPath ==
    /\ pc = "map"
    /\ file_path' = FilePath(blob_name[1])
    /\ pc' = "mapped"
    /\ UNCHANGED <<failures, mainResult, bar, out, fs>>
    /\ UNCHANGED <<blob_name, result, chunks, responses, blob_content, procResult, opened>>
    /\ UNCHANGED <<listVars, cleanVars, runVars>>

(***************************************************************************)
(* Specifications                                                          *)
(***************************************************************************)
NextList ==
    \/ ListPageOk \/ ListPageErr \/ ListEnd \/ GetLatestBlob

NextBlob ==
    \/ GetBlobResponse \/ GetBlobResponseErr \/ GetBlobChunk \/ GetBlobChunkErr
    \/ GetBlobBodyEnd \/ GetBlobEnd
    \/ ProcessBlobInvalidUtf8 \/ ProcessBlobPath \/ ProcessBlobCurrentExeErr
    \/ ProcessBlobCreateDirAll \/ ProcessBlobCreateDirAllErr
    \/ ProcessBlobCreateFile \/ ProcessBlobCreateFileErr
    \/ ProcessBlobWriteAll \/ ProcessBlobWriteAllErr
    \/ ProcessBlobOpen \/ ProcessBlobOpenErr

NextClean ==
    \/ MainCredentialErr \/ MainClean \/ MainCleanDone
    \/ CleanCurrentExeErr \/ CleanStart \/ CleanNoDir
    \/ CleanRemoveFile \/ CleanEnterDir \/ CleanDirLink
    \/ CleanLeaveDir \/ CleanFinish \/ CleanIoErr

Next ==
    \/ MainCredentialErr
    \/ MainList \/ MainListPrint
    \/ MainOpenNamed \/ MainOpenLatest \/ MainOpenFound \/ MainOpenNotFound
    \/ MainOpenDone
    \/ NextList
    \/ NextBlob

\* one invocation of the list or the open command
Spec == Init /\ [][Next]_vars

InitClean ==
    /\ command = CleanCommand
    /\ fs \in CleanFs
    /\ fs0 = fs
    /\ runs = 1
    /\ fsAfterClean = None
    /\ Fresh

\* successive invocations of the clean command
SpecClean == InitClean /\ [][NextClean \/ Reinvoke]_vars

InitMap ==
    /\ command = [type |-> "Open", prefix |-> <<>>, name |-> None]
    /\ fs = FsBare
    /\ fs0 = fs
    /\ runs = 1
    /\ fsAfterClean = None
    /\ pc = "map"
    /\ blob_name \in {Some(n) : n \in Names}
    /\ ret = <<>>
    /\ pages = <<>>
    /\ listResult = None
    /\ Locals

\* the path mapping of process_blob on every object name
SpecMap == InitMap /\ [][MapPath]_vars

InitSelect ==
    /\ command = [type |-> "Open", prefix |-> <<"a">>, name |-> None]
    /\ fs = FsBare
    /\ fs0 = fs
    /\ runs = 1
    /\ fsAfterClean = None
    /\ pc = "list_ret"
    /\ blob_name = None
    /\ \E items \in Listings :
        /\ ret = items
        /\ pages = <<Ok(items)>>
        /\ listResult = Some(Ok(items))
    /\ Locals

\* the selection of get_latest_blob on every listing
SpecSelect == InitSelect /\ [][GetLatestBlob]_vars

(***************************************************************************)
(* Properties                                                              *)
(***************************************************************************)
RECURSIVE ConcatOk(_)
\* the concatenation of the values of the Ok items of a stream history
ConcatOk(items) ==
    IF items = <<>> THEN <<>>
    ELSE (IF Head(items).ok THEN Head(items).val ELSE <<>>) \o ConcatOk(Tail(items))

SomeErr(items) == \E i \in DOMAIN items : ~items[i].ok

\* C1: if a page request of the listing fails, list_blobs returns an error
\* and never a sequence of entries as a successful result.
C1_PageErrorFailsListing ==
    (listResult # None /\ SomeErr(pages)) => ~listResult[1].ok

\* C2: the result of list_blobs is the concatenation of the entries of all
\* the pages the service returned, in request order, and get_latest_blob
\* selects from that complete sequence, after the last page.
C2_ListingIsConcatenationOfPages ==
    /\ listResult # None =>
          /\ listResult[1].ok
          /\ listResult[1].val = ConcatOk(pages)
    /\ pc = "list_next" => latest_blob = None
    /\ pc = "latest_ret" =>
          /\ listResult # None
          /\ latest_blob # None
          /\ latest_blob[1] = SelectLatest(ConcatOk(pages))

C2_Witness ==
    /\ pc = "latest_ret"
    /\ Len(pages) = 2
    /\ pages[1].ok /\ Len(pages[1].val) = 2
    /\ pages[2].ok /\ Len(pages[2].val) = 1
    /\ pages[1].val[1] # pages[2].val[1]
    /\ latest_blob[1] # None

\* the indices of the real objects of a listing
RealObjects(items) == {i \in DOMAIN items : items[i].kind = "Blob"}

\* C3: from entries with a real object, get_latest_blob returns the object
\* of a Blob entry whose timestamp is maximal among the real objects, the
\* earliest of them in the sequence on a tie; with no real object, None.
C3_LatestIsEarliestMaximalRealObject ==
    pc = "latest_ret" =>
        LET items == listResult[1].val
            real == RealObjects(items)
        IN IF real = {}
           THEN latest_blob[1] = None
           ELSE /\ latest_blob[1] # None
                /\ \E i \in real :
                    /\ latest_blob[1][1].name = items[i].name
                    /\ latest_blob[1][1].last_updated = items[i].last_modified
                    /\ \A j \in real :
                        \/ items[j].last_modified < items[i].last_modified
                        \/ /\ items[j].last_modified = items[i].last_modified
                           /\ i <= j

C3_Witness ==
    /\ pc = "latest_ret"
    /\ LET items == listResult[1].val
       IN /\ Len(items) = 4
          /\ items[1].kind = "BlobPrefix"
          /\ items[2].kind = "Blob" /\ items[2].last_modified = 1
          /\ items[3].kind = "Blob" /\ items[3].last_modified = 1
          /\ items[2].name # items[3].name
          /\ items[4].kind = "BlobPrefix"
          /\ latest_blob[1] = Some([name |-> items[2].name, last_updated |-> 1])

OpenNamed == command.type = "Open" /\ command.name # None

\* C4 as stated: with --name, the object fetched is the one whose name is
\* exactly the string given as --name.
C4_FetchesExactlyTheGivenName ==
    (OpenNamed /\ blob_name # None) => blob_name[1] = command.name[1]

\* C4: with --name, no listing request and no selection is performed, and
\* the object fetched is the one named <prefix>/<name>.
C4_FetchesPrefixSlashName ==
    OpenNamed =>
        /\ pages = <<>> /\ ret = <<>>
        /\ listResult = None
        /\ latest_blob = None
        /\ pc \notin {"list_next", "list_ret", "latest_ret"}
        /\ pc \notin {"main", "exit"} => blob_name # None
        /\ blob_name # None =>
              blob_name[1] = command.prefix \o <<"/">> \o command.name[1]

C4_Witness ==
    /\ OpenNamed
    /\ command.prefix = <<"a">>
    /\ command.name = Some(<<"b">>)
    /\ pc = "pb_ret"
    /\ procResult[1].ok
    /\ blob_name = Some(<<"a", "/", "b">>)

\* the local path the specification gives for an object name: the root, the
\* leading segments as sub-directories, the trimmed final segment as file
\* name, "unknown" for the empty name
ClaimedPath(name) ==
    LET segs == Split(name)
        dirs == SelectSeq(Front(segs), LAMBDA c : c # <<>> /\ c # <<".">>)
    IN IF name = <<>> THEN BlobsDir \o <<Unknown>>
       ELSE BlobsDir \o dirs \o <<Trim(Last(segs))>>

\* C5: the local path of an object name is the root, then the leading
\* '/'-separated segments as sub-directories, then the trimmed final
\* segment as file name, with "unknown" when there is no segment.
C5_PathIsRootDirsTrimmedBase ==
    pc = "mapped" => file_path = Some(ClaimedPath(blob_name[1]))

\* C6: the path mapping is injective: two distinct object names map to two
\* distinct local paths.
C6_PathMappingInjective ==
    (pc = "mapped" /\ file_path # None) =>
        \A n \in Names : n # blob_name[1] => FilePath(n) # file_path

\* C7: the local file is created, truncated or written, and the opener
\* invoked, only after get_blob read the stream to its end without error
\* and the bytes are valid UTF-8; after a failed chunk or invalid bytes
\* process_blob returns an error, having dropped the bytes and touched
\* neither the filesystem nor the opener.
C7_NoWriteBeforeFetchedAndValidated ==
    command.type = "Open" =>
        /\ (fs # fs0 \/ opened # <<>>) =>
              /\ blob_content # None
              /\ ValidUtf8(blob_content[1])
              /\ ~SomeErr(chunks)
        /\ (/\ pc \in {"pb_ret", "exit"}
            /\ \/ SomeErr(chunks)
               \/ blob_content # None /\ ~ValidUtf8(blob_content[1])) =>
              /\ procResult # None /\ ~procResult[1].ok
              /\ result = <<>>
              /\ fs = fs0
              /\ opened = <<>>

C7_Witness ==
    /\ command.type = "Open"
    /\ pc = "pb_ret"
    /\ Len(chunks) = 2
    /\ chunks[1].ok /\ chunks[2].ok
    /\ ~ValidUtf8(blob_content[1])
    /\ ~procResult[1].ok
    /\ Exists(fs0, PathA)

PipelineFailures == {"TransportError", "DecodeError", "FilesystemError"}

\* C8: a transport, decode or filesystem failure during open is reported to
\* the user, main returns Ok and the progress indicator is finished.
C8_OpenFailuresAreReported ==
    (pc = "exit" /\ command.type = "Open" /\ failures \cap PipelineFailures # {}) =>
        /\ mainResult = Some("Ok")
        /\ bar.finished
        /\ out # <<>>

IsPrefixOf(p, q) == Len(p) <= Len(q) /\ SubSeq(q, 1, Len(p)) = p

\* C9: a successful clean of an existing cache directory removes everything
\* below it, children before their directory, and leaves the root present
\* and empty; without a root directory clean changes nothing and succeeds;
\* a second clean leaves the filesystem as the first left it.
C9_CleanEmptiesRootAndIsIdempotent ==
    /\ (cleanResult # None /\ cleanResult[1].ok) =>
          /\ IF IsDir(fs0, BlobsDir)
             THEN /\ DOMAIN fs =
                        {q \in DOMAIN fs0 : q = BlobsDir \/ ~IsPrefixOf(BlobsDir, q)}
                  /\ \A q \in DOMAIN fs : fs[q] = fs0[q]
                  /\ fs[BlobsDir] = Dir
                  /\ Children(fs, BlobsDir) = {}
             ELSE fs = fs0
          /\ fsAfterClean # None => fs = fsAfterClean[1]
    /\ \A i, j \in DOMAIN removed :
          (i < j /\ removed[i] # removed[j]) => ~IsPrefixOf(removed[i], removed[j])
    /\ ~IsDir(fs0, BlobsDir) =>
          /\ fs = fs0
          /\ (cleanResult # None /\ "FilesystemError" \notin failures) =>
                cleanResult[1].ok

C9_Witness ==
    /\ runs = 2
    /\ pc = "exit"
    /\ fsAfterClean # None
    /\ cleanResult # None
    /\ cleanResult[1].ok
    /\ Len(removed) = 4
    /\ removed[3] = BlobsDir \o <<X, X>>
    /\ removed[4] = BlobsDir \o <<X>>
    /\ DOMAIN fs = {Root, ExeDir, BlobsDir}

\* C10: after a successful process_blob the file at the mapped path holds
\* exactly the bytes get_blob returned, the chunks of the stream in arrival
\* order, whatever a file at that path held before.
C10_FileHoldsTheChunksInOrder ==
    (procResult # None /\ procResult[1].ok) =>
        /\ blob_content = Some(ConcatOk(chunks))
        /\ file_path # None
        /\ Exists(fs, file_path[1])
        /\ fs[file_path[1]] = File(ConcatOk(chunks))

C10_Witness ==
    /\ pc = "pb_ret"
    /\ procResult[1].ok
    /\ file_path = Some(PathAB)
    /\ fs0 = FsNested
    /\ Len(chunks) = 2
    /\ chunks[1].val = <<65, 195>>
    /\ chunks[2].val = <<169>>
    /\ fs[PathAB].data = <<65, 195, 169>>

====
